---------------------------- MODULE Spec2Model ----------------------------
(***************************************************************************)
(* A model of clippings-parser.py: read_clippings splits "My Clippings.txt"*)
(* on separator lines, separate_clippings_by_title groups the blocks by    *)
(* their first line, clean_title turns a title into a file stem and        *)
(* save_clippings_to_md_files writes one .md file per title.               *)
(*                                                                         *)
(* A Python str is a sequence of characters; a character is a one-element  *)
(* TLA+ string, and a code point outside ASCII is named by its number      *)
(* ("U+00E9" is the precomposed e-acute, "U+0301" the combining acute).    *)
(* The input file is opened in text mode; the alphabet holds no carriage   *)
(* return, so universal-newline translation changes nothing here.          *)
(***************************************************************************)
EXTENDS Naturals, Sequences, FiniteSets

VARIABLES
    pc,               \* position of the program
    error,            \* the exception that ended the run, or "none"
    file_readable,    \* whether open("My Clippings.txt", "r") succeeds
    file_content,     \* the characters of the input file
    line_no,          \* lines of the input file consumed by the for loop
    clippings,        \* read_clippings: the list of blocks
    current_clipping, \* read_clippings: the lines of the block being built
    clip_no,          \* separate_clippings_by_title: blocks consumed
    book_dict,        \* dict title -> list of blocks, in insertion order
    current_book,     \* separate_clippings_by_title: title of the previous block
    title_no,         \* save_clippings_to_md_files: dict items consumed
    filename,         \* save_clippings_to_md_files: last file name computed
    mode,             \* save_clippings_to_md_files: last open mode chosen
    dirs,             \* the directories that exist
    fs,               \* the files that exist: path -> content
    fs0,              \* the files that existed when the program started
    runs              \* completed calls of save_clippings_to_md_files

vars == <<pc, error, file_readable, file_content, line_no, clippings,
          current_clipping, clip_no, book_dict, current_book, title_no,
          filename, mode, dirs, fs, fs0, runs>>

----------------------------------------------------------------------------
(* Bounds of the model *)

MaxLines == 3      \* lines of an enumerated input file
MaxClippings == 4  \* blocks of an enumerated block list
MaxTitleLen == 3   \* characters of an enumerated title
MaxTitles == 2     \* keys of an enumerated mapping
MaxBlocks == 2     \* blocks per key of an enumerated mapping
MaxRuns == 2       \* calls of save_clippings_to_md_files on one mapping

----------------------------------------------------------------------------
(* Characters and the str methods the program uses *)

AsciiLetters == {"A", "B", "C", "L", "O", "T", "a", "d", "e", "f", "h", "i",
                 "k", "m", "n", "o", "s", "w", "x"}
AsciiDigits == {"1", "2", "3", "4"}
NonAsciiLetters == {"U+00E9"}
CombiningMarks == {"U+0301"}
\* str.splitlines() also ends a line at a form feed; a text file does not.
LineBoundaries == {"\n", "\f"}
Whitespace == {" ", "\t", "\n", "\f"}

\* str.isalnum() of one character: letters and digits of any script.
isalnum(c) == c \in AsciiLetters \cup AsciiDigits \cup NonAsciiLetters

\* str.isspace() of one character.
isspace(c) == c \in Whitespace

isascii(c) == c \notin NonAsciiLetters \cup CombiningMarks

RECURSIVE concat(_)
\* "".join(parts)
concat(parts) ==
    IF parts = <<>> THEN <<>> ELSE Head(parts) \o concat(Tail(parts))

RECURSIVE lstrip(_)
lstrip(s) ==
    IF s # <<>> /\ isspace(Head(s)) THEN lstrip(Tail(s)) ELSE s

RECURSIVE rstrip(_)
rstrip(s) ==
    IF s # <<>> /\ isspace(s[Len(s)]) THEN rstrip(SubSeq(s, 1, Len(s) - 1))
    ELSE s

\* A mutant of strip: only the trailing whitespace is removed.
strip_trailing_only(s) == rstrip(s)

\* str.strip(): leading and trailing whitespace removed.
strip(s) == lstrip(rstrip(s))

RECURSIVE splitlines_from(_, _)
\* The lines of s after the line being built, cur: a line ends at a line
\* boundary, which is dropped, and no empty line follows the last boundary.
splitlines_from(s, cur) ==
    IF s = <<>> THEN (IF cur = <<>> THEN <<>> ELSE <<cur>>)
    ELSE IF Head(s) \in LineBoundaries
         THEN <<cur>> \o splitlines_from(Tail(s), <<>>)
         ELSE splitlines_from(Tail(s), Append(cur, Head(s)))

\* str.splitlines()
splitlines(s) == splitlines_from(s, <<>>)

RECURSIVE file_lines_from(_, _)
\* Iterating a text file: each line keeps its "\n"; a last line without one
\* is still a line.
file_lines_from(s, cur) ==
    IF s = <<>> THEN (IF cur = <<>> THEN <<>> ELSE <<cur>>)
    ELSE IF Head(s) = "\n"
         THEN <<Append(cur, "\n")>> \o file_lines_from(Tail(s), <<>>)
         ELSE file_lines_from(Tail(s), Append(cur, Head(s)))

file_lines(content) == file_lines_from(content, <<>>)

SEPARATOR == <<"=", "=", "=", "=", "=", "=", "=", "=", "=", "=">>

\* Line 22: line.strip() == "=========="
is_separator(line) == strip(line) = SEPARATOR


----------------------------------------------------------------------------
(* read_clippings *)

\* A mutant of read_line: the block is stored without the emptiness test.
read_line_store_always(clips, cur, line) ==
    IF is_separator(line)
    THEN [clippings |-> Append(clips, concat(cur)), current_clipping |-> <<>>]
    ELSE [clippings |-> clips, current_clipping |-> Append(cur, line)]

\* Lines 22-28: the body of the for loop, on one line of the file.
read_line(clips, cur, line) ==
    IF is_separator(line)
    THEN IF cur # <<>>
         THEN [clippings |-> Append(clips, concat(cur)), current_clipping |-> <<>>]
         ELSE [clippings |-> clips, current_clipping |-> cur]
    ELSE [clippings |-> clips, current_clipping |-> Append(cur, line)]

\* A mutant of ReadOpen: the output directory is made before the file is opened.
ReadOpenAfterMakedirs ==
    /\ pc = "start"
    /\ dirs' = dirs \cup {<<"c", "l", "i", "p", "p", "i", "n", "g", "s">>}
    /\ IF file_readable
       THEN /\ pc' = "read_loop"
            /\ error' = error
       ELSE /\ pc' = "error"
            /\ error' = "IOError"
    /\ clippings' = <<>>
    /\ current_clipping' = <<>>
    /\ line_no' = 0
    /\ UNCHANGED <<file_readable, file_content, clip_no, book_dict,
                   current_book, title_no, filename, mode, fs, fs0, runs>>

\* Lines 115, 17-20: main calls read_clippings, which opens the file; a file
\* that cannot be opened raises and nothing catches it.
ReadOpen ==
    /\ pc = "start"
    /\ IF file_readable
       THEN /\ pc' = "read_loop"
            /\ error' = error
       ELSE /\ pc' = "error"
            /\ error' = "IOError"
    /\ clippings' = <<>>
    /\ current_clipping' = <<>>
    /\ line_no' = 0
    /\ UNCHANGED <<file_readable, file_content, clip_no, book_dict,
                   current_book, title_no, filename, mode, dirs, fs, fs0, runs>>

\* Lines 21-28: one iteration of the for loop.
ReadLine ==
    /\ pc = "read_loop"
    /\ line_no < Len(file_lines(file_content))
    /\ LET r == read_line(clippings, current_clipping,
                          file_lines(file_content)[line_no + 1])
       IN /\ clippings' = r.clippings
          /\ current_clipping' = r.current_clipping
    /\ line_no' = line_no + 1
    /\ UNCHANGED <<pc, error, file_readable, file_content, clip_no, book_dict,
                   current_book, title_no, filename, mode, dirs, fs, fs0, runs>>

\* A mutant of ReadReturn: the lines after the last separator are dropped.
ReadReturnDropsLast ==
    /\ pc = "read_loop"
    /\ line_no = Len(file_lines(file_content))
    /\ current_clipping' = <<>>
    /\ pc' = "have_clippings"
    /\ UNCHANGED <<error, file_readable, file_content, line_no, clippings,
                   clip_no, book_dict, current_book, title_no, filename, mode,
                   dirs, fs, fs0, runs>>

\* Lines 30-34: the loop is over; the last block is stored and the list returned.
\* current_clipping is a local that dies with the call.
ReadReturn ==
    /\ pc = "read_loop"
    /\ line_no = Len(file_lines(file_content))
    /\ clippings' = IF current_clipping # <<>>
                    THEN Append(clippings, concat(current_clipping))
                    ELSE clippings
    /\ current_clipping' = <<>>
    /\ pc' = "have_clippings"
    /\ UNCHANGED <<error, file_readable, file_content, line_no, clip_no,
                   book_dict, current_book, title_no, filename, mode, dirs, fs,
                   fs0, runs>>

----------------------------------------------------------------------------
(* separate_clippings_by_title *)

\* The dict is a sequence of items in insertion order.
keys(d) == {d[i].title : i \in 1..Len(d)}

dict_get(d, k) == d[CHOOSE i \in 1..Len(d) : d[i].title = k].clippings

\* d[k] = v: an existing key keeps its place, a new key goes last.
dict_set(d, k, v) ==
    IF k \in keys(d)
    THEN [i \in 1..Len(d) |->
             IF d[i].title = k THEN [title |-> k, clippings |-> v] ELSE d[i]]
    ELSE Append(d, [title |-> k, clippings |-> v])

\* Line 53: clipping.splitlines()[0].strip(), where the block has a line.
title_of(clipping) == strip(splitlines(clipping)[1])

\* A mutant of group_clipping: a list is started only for a title not yet a key.
group_clipping_global(d, cur, clipping) ==
    LET title == title_of(clipping)
        d1 == IF title \notin keys(d) THEN dict_set(d, title, <<>>) ELSE d
    IN [book_dict |-> dict_set(d1, title, Append(dict_get(d1, title), clipping)),
        current_book |-> <<title>>]

\* Lines 53-61: the body of the for loop, on a block that has a line.
\* current_book is <<>> for None and <<title>> for a title.
group_clipping(d, cur, clipping) ==
    LET title == title_of(clipping)
        d1 == IF cur # <<title>> THEN dict_set(d, title, <<>>) ELSE d
    IN [book_dict |-> dict_set(d1, title, Append(dict_get(d1, title), clipping)),
        current_book |-> <<title>>]

\* Lines 116, 48-49: main passes the blocks on; the dict starts empty.
GroupEnter ==
    /\ pc = "have_clippings"
    /\ book_dict' = <<>>
    /\ current_book' = <<>>
    /\ clip_no' = 0
    /\ pc' = "group_loop"
    /\ UNCHANGED <<error, file_readable, file_content, line_no, clippings,
                   current_clipping, title_no, filename, mode, dirs, fs, fs0,
                   runs>>

\* Lines 51-61: one iteration; element 0 of an empty list of lines raises
\* IndexError, which nothing catches.
GroupStep ==
    /\ pc = "group_loop"
    /\ clip_no < Len(clippings)
    /\ clip_no' = clip_no + 1
    /\ IF splitlines(clippings[clip_no + 1]) = <<>>
       THEN /\ pc' = "error"
            /\ error' = "IndexError"
            /\ UNCHANGED <<book_dict, current_book>>
       ELSE /\ LET r == group_clipping(book_dict, current_book,
                                       clippings[clip_no + 1])
               IN /\ book_dict' = r.book_dict
                  /\ current_book' = r.current_book
            /\ UNCHANGED <<pc, error>>
    /\ UNCHANGED <<file_readable, file_content, line_no, clippings,
                   current_clipping, title_no, filename, mode, dirs, fs, fs0,
                   runs>>

\* Line 63
GroupReturn ==
    /\ pc = "group_loop"
    /\ clip_no = Len(clippings)
    /\ pc' = "have_book_dict"
    /\ UNCHANGED <<error, file_readable, file_content, line_no, clippings,
                   current_clipping, clip_no, book_dict, current_book, title_no,
                   filename, mode, dirs, fs, fs0, runs>>

----------------------------------------------------------------------------
(* clean_title *)

\* unicodedata.normalize("NFKD", c) of one character: a precomposed accented
\* letter becomes its base letter and a combining mark.
nfkd_char(c) == IF c = "U+00E9" THEN <<"e", "U+0301">> ELSE <<c>>

RECURSIVE nfkd(_)
nfkd(s) == IF s = <<>> THEN <<>> ELSE nfkd_char(Head(s)) \o nfkd(Tail(s))

\* s.encode("ASCII", "ignore").decode()
ascii_ignore(s) == SelectSeq(s, isascii)

RECURSIVE replace_char(_, _, _)
\* s.replace(old, new) for one-character old and new
replace_char(s, old, new) ==
    IF s = <<>> THEN <<>>
    ELSE <<IF Head(s) = old THEN new ELSE Head(s)>>
         \o replace_char(Tail(s), old, new)

\* \w of a str pattern: alphanumeric in any script, or the underscore.
re_word(c) == isalnum(c) \/ c = "_"

\* \w under re.ASCII: [a-zA-Z0-9_]
re_word_ascii(c) == (c \in AsciiLetters \cup AsciiDigits) \/ c = "_"

\* \s of a str pattern
re_space(c) == isspace(c)

\* [^\w\s-] on one character
re_unsafe(c) == ~(re_word(c) \/ re_space(c) \/ c = "-")

RECURSIVE re_sub_unsafe(_)
\* re.sub(r"[^\w\s-]", "", s): every match is replaced by the empty string.
re_sub_unsafe(s) ==
    IF s = <<>> THEN <<>>
    ELSE (IF re_unsafe(Head(s)) THEN <<>> ELSE <<Head(s)>>)
         \o re_sub_unsafe(Tail(s))

\* A mutant of clean_title: the pattern is matched with ASCII-only classes.
clean_title_ascii_classes(title) ==
    SelectSeq(title, LAMBDA c : re_word_ascii(c) \/ re_space(c) \/ c = "-")

\* Lines 66-79: normalized_title and the first safe_title are computed and
\* then overwritten by the substitution on the original title.
clean_title(title) ==
    LET normalized_title == ascii_ignore(nfkd(title))
        safe_title_1 == replace_char(replace_char(normalized_title, "/", "-"),
                                     ":", "_")
        safe_title == re_sub_unsafe(title)
    IN safe_title

----------------------------------------------------------------------------
(* save_clippings_to_md_files *)

\* Line 82: output_dir="clippings"
OUTPUT_DIR == <<"c", "l", "i", "p", "p", "i", "n", "g", "s">>

\* Line 96: ".md"
EXTENSION == <<".", "m", "d">>

\* os.path.join(a, b): an absolute b replaces a.
path_join(a, b) ==
    IF b # <<>> /\ Head(b) = "/" THEN b
    ELSE IF a = <<>> \/ a[Len(a)] = "/" THEN a \o b
    ELSE a \o <<"/">> \o b

\* Lines 96-97
file_name(title) == clean_title(title) \o EXTENSION
file_path(title) == path_join(OUTPUT_DIR, file_name(title))

\* A mutant of open_mode: the file is always opened for writing.
open_mode_always_write(exists) == "w"

\* Lines 100-105
open_mode(exists) == IF exists THEN "a" ELSE "w"

\* Line 107: what the file holds once opened; "w" truncates, "a" does not.
opened(files, path, m) ==
    IF m = "a" /\ path \in DOMAIN files THEN files[path] ELSE <<>>

\* A mutant of write_clipping: the separator line is written first.
write_clipping_separator_first(content, clipping) ==
    content \o <<"\n", "-", "-", "-", "\n">> \o <<"\n">> \o clipping

\* Lines 109-111: the three writes for one block.
write_clipping(content, clipping) ==
    ((content \o <<"\n">>) \o clipping) \o <<"\n", "-", "-", "-", "\n">>

RECURSIVE write_clippings(_, _)
\* Lines 108-111: the inner for loop.
write_clippings(content, clips) ==
    IF clips = <<>> THEN content
    ELSE write_clippings(write_clipping(content, Head(clips)), Tail(clips))

\* Lines 117, 91-93: main passes the dict on; os.makedirs(exist_ok=True).
SaveMakedirs ==
    /\ pc = "have_book_dict"
    /\ dirs' = dirs \cup {OUTPUT_DIR}
    /\ title_no' = 0
    /\ pc' = "save_loop"
    /\ UNCHANGED <<error, file_readable, file_content, line_no, clippings,
                   current_clipping, clip_no, book_dict, current_book,
                   filename, mode, fs, fs0, runs>>

\* Lines 95-111: one iteration of the loop over the items of the dict: the
\* file is opened, every block of the title written, the file closed.
SaveTitle ==
    /\ pc = "save_loop"
    /\ title_no < Len(book_dict)
    /\ LET item == book_dict[title_no + 1]
           path == file_path(item.title)
           m == open_mode(path \in DOMAIN fs)
           written == write_clippings(opened(fs, path, m), item.clippings)
       IN /\ filename' = file_name(item.title)
          /\ mode' = m
          /\ fs' = [p \in DOMAIN fs \cup {path} |->
                       IF p = path THEN written ELSE fs[p]]
    /\ title_no' = title_no + 1
    /\ UNCHANGED <<pc, error, file_readable, file_content, line_no, clippings,
                   current_clipping, clip_no, book_dict, current_book, dirs,
                   fs0, runs>>

\* The loop is over and the function returns.
SaveReturn ==
    /\ pc = "save_loop"
    /\ title_no = Len(book_dict)
    /\ pc' = "done"
    /\ runs' = runs + 1
    /\ UNCHANGED <<error, file_readable, file_content, line_no, clippings,
                   current_clipping, clip_no, book_dict, current_book, title_no,
                   filename, mode, dirs, fs, fs0>>

\* save_clippings_to_md_files is called again with the same dict and directory.
SaveAgain ==
    /\ pc = "done"
    /\ runs < MaxRuns
    /\ pc' = "have_book_dict"
    /\ UNCHANGED <<error, file_readable, file_content, line_no, clippings,
                   current_clipping, clip_no, book_dict, current_book, title_no,
                   filename, mode, dirs, fs, fs0, runs>>

----------------------------------------------------------------------------
(* Inputs *)

BoundedSeq(S, n) == UNION {[1..k -> S] : k \in 0..n}

\* Lines an input file is made of: the separator, a separator with leading
\* whitespace, nine equals signs, two title lines, an empty line and a line
\* of whitespace.
SepLine == SEPARATOR \o <<"\n">>
IndentedSepLine == <<" ", " ">> \o SEPARATOR \o <<"\n">>
ShortSepLine == <<"=", "=", "=", "=", "=", "=", "=", "=", "=", "\n">>
SourceLines == {SepLine, IndentedSepLine, ShortSepLine, <<"A", "\n">>,
                <<"B", "\n">>, <<"\n">>, <<" ", "\n">>}

\* The file without the newline that ends its last line.
chop(s) == IF s # <<>> /\ s[Len(s)] = "\n" THEN SubSeq(s, 1, Len(s) - 1) ELSE s

\* Two blocks titled "Book One", one titled "Book Two", one more titled
\* "Book One", each followed by a separator line.
BookOne == <<"B", "o", "o", "k", " ", "O", "n", "e">>
BookTwo == <<"B", "o", "o", "k", " ", "T", "w", "o">>
ScenarioBlock1 == BookOne \o <<"\n", "h", "1", "\n">>
ScenarioBlock2 == BookOne \o <<"\n", "h", "2", "\n">>
ScenarioBlock3 == BookTwo \o <<"\n", "h", "3", "\n">>
ScenarioBlock4 == BookOne \o <<"\n", "h", "4", "\n">>
ScenarioSource ==
    ScenarioBlock1 \o SepLine \o ScenarioBlock2 \o SepLine
    \o ScenarioBlock3 \o SepLine \o ScenarioBlock4 \o SepLine

Sources ==
    {concat(ls) : ls \in BoundedSeq(SourceLines, MaxLines)}
    \cup {chop(concat(ls)) : ls \in BoundedSeq(SourceLines, MaxLines)}
    \cup {ScenarioSource}

\* The disk before the program runs: no output directory, an empty one, or
\* one that holds A.md from an earlier run.
NoFiles == [p \in {} |-> <<>>]
OldPath == path_join(OUTPUT_DIR, <<"A", ".", "m", "d">>)
OldFiles == [p \in {OldPath} |-> <<"\n", "o", "\n", "-", "-", "-", "\n">>]
Disks == {[dirs |-> {}, fs |-> NoFiles],
          [dirs |-> {OUTPUT_DIR}, fs |-> NoFiles],
          [dirs |-> {OUTPUT_DIR}, fs |-> OldFiles]}

\* Blocks handed to separate_clippings_by_title, the empty block among them.
GroupBlocks == {<<"A", "\n", "x", "\n">>, <<"A", "\n", "y", "\n">>,
                <<" ", "A", " ", "\n">>, <<"B", "\n">>,
                <<"B", "\f", "A", "\n">>, <<"\n">>, <<>>}

\* Titles handed to clean_title.
TitleChars == {"a", "U+00E9", "U+0301", "/", ":", "-", "_", " ", "1", "."}
CafeTitle == <<"C", "a", "f", "U+00E9", ":", " ", "L", "i", "f", "e", "/",
               "T", "i", "m", "e", "s">>
Titles == BoundedSeq(TitleChars, MaxTitleLen) \cup {CafeTitle}

\* Mappings handed to save_clippings_to_md_files: "A" and "A:" share a stem.
WriterTitles == {<<"A">>, <<"A", ":">>, <<"B">>}
WriterBlocks == {<<"x", "\n">>, <<"y">>}
Mappings ==
    {d \in BoundedSeq([title : WriterTitles,
                       clippings : BoundedSeq(WriterBlocks, MaxBlocks)],
                      MaxTitles) :
        \A i, j \in 1..Len(d) : i # j => d[i].title # d[j].title}

----------------------------------------------------------------------------
(* Specifications *)

Locals ==
    /\ error = "none"
    /\ line_no = 0
    /\ current_clipping = <<>>
    /\ clip_no = 0
    /\ current_book = <<>>
    /\ title_no = 0
    /\ filename = <<>>
    /\ mode = "none"
    /\ runs = 0

\* The program, from its start.
Init ==
    /\ pc = "start"
    /\ file_readable \in BOOLEAN
    /\ file_content \in (IF file_readable THEN Sources ELSE {<<>>})
    /\ clippings = <<>>
    /\ book_dict = <<>>
    /\ \E disk \in Disks : dirs = disk.dirs /\ fs = disk.fs /\ fs0 = disk.fs
    /\ Locals

Next ==
    \/ ReadOpen
    \/ ReadLine
    \/ ReadReturn
    \/ GroupEnter
    \/ GroupStep
    \/ GroupReturn
    \/ SaveMakedirs
    \/ SaveTitle
    \/ SaveReturn

Spec == Init /\ [][Next]_vars

\* separate_clippings_by_title on any list of blocks.
InitGrouper ==
    /\ pc = "have_clippings"
    /\ file_readable = TRUE
    /\ file_content = <<>>
    /\ clippings \in BoundedSeq(GroupBlocks, MaxClippings)
    /\ book_dict = <<>>
    /\ dirs = {} /\ fs = NoFiles /\ fs0 = NoFiles
    /\ Locals

NextGrouper == GroupEnter \/ GroupStep \/ GroupReturn

SpecGrouper == InitGrouper /\ [][NextGrouper]_vars

\* save_clippings_to_md_files on a mapping of one title: clean_title on any title.
InitSanitizer ==
    /\ pc = "have_book_dict"
    /\ file_readable = TRUE
    /\ file_content = <<>>
    /\ clippings = <<>>
    /\ \E t \in Titles : book_dict = <<[title |-> t, clippings |-> <<>>]>>
    /\ dirs = {} /\ fs = NoFiles /\ fs0 = NoFiles
    /\ Locals

NextSanitizer == SaveMakedirs \/ SaveTitle \/ SaveReturn

SpecSanitizer == InitSanitizer /\ [][NextSanitizer]_vars

\* save_clippings_to_md_files on any mapping, called up to MaxRuns times.
InitWriter ==
    /\ pc = "have_book_dict"
    /\ file_readable = TRUE
    /\ file_content = <<>>
    /\ clippings = <<>>
    /\ book_dict \in Mappings
    /\ \E disk \in Disks : dirs = disk.dirs /\ fs = disk.fs /\ fs0 = disk.fs
    /\ Locals

NextWriter == SaveMakedirs \/ SaveTitle \/ SaveReturn \/ SaveAgain

SpecWriter == InitWriter /\ [][NextWriter]_vars

----------------------------------------------------------------------------
(* Properties of read_clippings *)

\* A line made of whitespace, ten equals signs and whitespace.
SeparatorShape(line) ==
    \E a \in 0..Len(line) :
        /\ a + Len(SEPARATOR) <= Len(line)
        /\ \A k \in 1..a : line[k] \in Whitespace
        /\ SubSeq(line, a + 1, a + Len(SEPARATOR)) = SEPARATOR
        /\ \A k \in (a + Len(SEPARATOR) + 1)..Len(line) : line[k] \in Whitespace

\* A line that is ten equals signs followed by whitespace only.
TrailingTrimmedIsMarker(line) ==
    /\ Len(line) >= Len(SEPARATOR)
    /\ SubSeq(line, 1, Len(SEPARATOR)) = SEPARATOR
    /\ \A k \in (Len(SEPARATOR) + 1)..Len(line) : line[k] \in Whitespace

\* The step of the for loop that consumes the next line.
ConsumesLine == pc = "read_loop" /\ line_no' = line_no + 1
NextLine == file_lines(file_content)[line_no + 1]
Accumulated == current_clipping' = Append(current_clipping, NextLine)

\* C3 as stated: a line is a separator if and only if it is the marker once
\* its trailing whitespace is trimmed; any other line, one with whitespace
\* before the marker included, is accumulated into the current block.
C3_TrailingTrimOnly ==
    [][ConsumesLine => (TrailingTrimmedIsMarker(NextLine) <=> ~Accumulated)]_vars

\* C3 amended: a line is a separator if and only if it is the marker once
\* its leading and trailing whitespace are trimmed; a separator is not
\* accumulated and every other line is.
C3_BothSidesTrimmed ==
    [][ConsumesLine => (SeparatorShape(NextLine) <=> ~Accumulated)]_vars

\* An indented marker has ended the block in front of it.
C3_Witness ==
    /\ pc = "read_loop"
    /\ line_no = 2
    /\ file_lines(file_content)[2] = IndentedSepLine
    /\ clippings = <<file_lines(file_content)[1]>>
    /\ current_clipping = <<>>

\* The maximal runs of consecutive non-separator lines, as pairs of line numbers.
Runs(L) ==
    {r \in (1..Len(L)) \X (1..Len(L)) :
        /\ r[1] <= r[2]
        /\ \A k \in r[1]..r[2] : ~SeparatorShape(L[k])
        /\ (r[1] = 1 \/ SeparatorShape(L[r[1] - 1]))
        /\ (r[2] = Len(L) \/ SeparatorShape(L[r[2] + 1]))}

RunText(L, r) == concat(SubSeq(L, r[1], r[2]))

NotSeparator(line) == ~SeparatorShape(line)

\* C4: read_clippings returns the maximal runs of non-separator lines in
\* source order, each concatenated verbatim; no block is empty, a last run
\* without a separator after it is returned too, and the blocks together
\* are the source without its separator lines.
C4_BlocksAreRuns ==
    pc = "have_clippings" =>
        LET L == file_lines(file_content)
        IN /\ Len(clippings) = Cardinality(Runs(L))
           /\ \A r \in Runs(L) :
                clippings[1 + Cardinality({q \in Runs(L) : q[1] < r[1]})]
                    = RunText(L, r)
           /\ \A k \in 1..Len(clippings) : clippings[k] # <<>>
           /\ concat(clippings) = concat(SelectSeq(L, NotSeparator))

\* Two blocks were returned and the second one ends the file with no
\* separator after it.
C4_Witness ==
    /\ pc = "have_clippings"
    /\ Len(clippings) = 2
    /\ file_lines(file_content) # <<>>
    /\ ~SeparatorShape(file_lines(file_content)[Len(file_lines(file_content))])

AllSpace(s) == \A k \in 1..Len(s) : s[k] \in Whitespace

\* C8: every block read_clippings returns has a line, so grouping its
\* output never raises IndexError; a run of blank or whitespace-only lines
\* is returned as a block and is grouped under the empty title.
C8_NoEmptyBlock ==
    /\ error # "IndexError"
    /\ pc \notin {"start", "read_loop", "error"} =>
        /\ \A k \in 1..Len(clippings) : Len(splitlines(clippings[k])) >= 1
        /\ \A r \in Runs(file_lines(file_content)) :
             AllSpace(RunText(file_lines(file_content), r)) =>
                \E k \in 1..Len(clippings) :
                    /\ clippings[k] = RunText(file_lines(file_content), r)
                    /\ title_of(clippings[k]) = <<>>
                    /\ pc \in {"have_book_dict", "save_loop", "done"} =>
                          /\ <<>> \in keys(book_dict)
                          /\ \E i \in 1..Len(dict_get(book_dict, <<>>)) :
                                AllSpace(dict_get(book_dict, <<>>)[i])

\* A block of whitespace only was grouped under the empty title.
C8_Witness ==
    /\ pc = "have_book_dict"
    /\ \E k \in 1..Len(clippings) : AllSpace(clippings[k])
    /\ <<>> \in keys(book_dict)

\* C10: when the input file cannot be opened the only step the program
\* takes is the failing open: it ends in IOError, makes no directory,
\* creates or changes no file, groups nothing, and does not try again.
C10_OpenFails ==
    [][~file_readable =>
          /\ pc = "start"
          /\ pc' = "error"
          /\ error' = "IOError"
          /\ dirs' = dirs
          /\ fs' = fs
          /\ clippings' = <<>>
          /\ book_dict' = <<>>]_vars

\* The open has failed and the file of an earlier run is as it was.
C10_Witness ==
    /\ pc = "error"
    /\ error = "IOError"
    /\ ~file_readable
    /\ fs = OldFiles

----------------------------------------------------------------------------
(* Properties of separate_clippings_by_title *)

\* The title of block i of the input.
TitleAt(i) == title_of(clippings[i])

\* The last block with title t, and the first block of the run that ends there.
LastOf(t) == CHOOSE j \in 1..Len(clippings) :
                /\ TitleAt(j) = t
                /\ \A k \in (j + 1)..Len(clippings) : TitleAt(k) # t
RunStart(j) == CHOOSE i \in 1..j :
                /\ \A k \in i..j : TitleAt(k) = TitleAt(j)
                /\ (i = 1 \/ TitleAt(i - 1) # TitleAt(j))

\* C1: on blocks that are all non-empty, the keys of the mapping are the
\* distinct titles of the input and each title maps to the blocks of the
\* last maximal run of adjacent blocks with that title, in input order.
C1_LastRunOnly ==
    (pc = "have_book_dict" /\ \A i \in 1..Len(clippings) : clippings[i] # <<>>) =>
        /\ keys(book_dict) = {TitleAt(i) : i \in 1..Len(clippings)}
        /\ Len(book_dict) = Cardinality(keys(book_dict))
        /\ \A n \in 1..Len(book_dict) :
             book_dict[n].clippings =
                SubSeq(clippings, RunStart(LastOf(book_dict[n].title)),
                       LastOf(book_dict[n].title))

\* Titles A, A, B, A: A maps to the last block alone and B to its block.
C1_Witness ==
    /\ pc = "have_book_dict"
    /\ clippings = << <<"A", "\n", "x", "\n">>, <<"A", "\n", "x", "\n">>,
                      <<"B", "\n">>, <<"A", "\n", "y", "\n">> >>
    /\ book_dict = << [title |-> <<"A">>,
                       clippings |-> << <<"A", "\n", "y", "\n">> >>],
                      [title |-> <<"B">>, clippings |-> << <<"B", "\n">> >>] >>

----------------------------------------------------------------------------
(* Properties of clean_title *)

\* The title save_clippings_to_md_files has just named a file after.
NamedTitle == book_dict[title_no].title
Named == pc \in {"save_loop", "done"} /\ title_no = 1

AsciiKept(c) ==
    c \in AsciiLetters \cup AsciiDigits \cup {"_", "-", " ", "\t", "\n", "\f"}

UnicodeKept(c) ==
    c \in AsciiLetters \cup AsciiDigits \cup NonAsciiLetters
          \cup {"_", "-", " ", "\t", "\n", "\f"}

\* C2 as stated: clean_title deletes every character that is not an ASCII
\* letter, a digit, an underscore, whitespace or a hyphen; an accented letter
\* is deleted.
C2_AccentsDeleted ==
    Named => filename = SelectSeq(NamedTitle, AsciiKept) \o EXTENSION

\* C2 amended: clean_title deletes every character that is not a letter or
\* digit of any script, an underscore, whitespace or a hyphen; an accented
\* letter that is one code point is kept, a combining mark, "/" and ":" are
\* deleted, and "Cafe: Life/Times" with U+00E9 gives "Cafe LifeTimes" with
\* U+00E9.
C2_AccentsKept ==
    Named =>
        /\ filename = SelectSeq(NamedTitle, UnicodeKept) \o EXTENSION
        /\ NamedTitle = CafeTitle =>
              filename = <<"C", "a", "f", "U+00E9", " ", "L", "i", "f", "e",
                           "T", "i", "m", "e", "s">> \o EXTENSION

\* The file of the title with U+00E9, "/" and ":" has been named.
C2_Witness ==
    /\ Named
    /\ NamedTitle = CafeTitle
    /\ \E k \in 1..Len(filename) : filename[k] = "U+00E9"

----------------------------------------------------------------------------
(* Properties of save_clippings_to_md_files *)

\* "\n" + block + "\n---\n"
EntryText(block) == <<"\n">> \o block \o <<"\n", "-", "-", "-", "\n">>

BlocksText(blocks) == concat([i \in 1..Len(blocks) |-> EntryText(blocks[i])])

\* <output_dir>/<clean_title(title)>.md
Target(title) == OUTPUT_DIR \o <<"/">> \o clean_title(title) \o EXTENSION
Targets == {Target(book_dict[i].title) : i \in 1..Len(book_dict)}

\* What one call writes to file f: the entries of every title whose file
\* is f, in the order of the mapping.
RECURSIVE EntriesFor(_, _)
EntriesFor(d, f) ==
    IF d = <<>> THEN <<>>
    ELSE (IF Target(Head(d).title) = f THEN BlocksText(Head(d).clippings)
          ELSE <<>>) \o EntriesFor(Tail(d), f)

RECURSIVE Repeat(_, _)
Repeat(s, n) == IF n = 0 THEN <<>> ELSE s \o Repeat(s, n - 1)

Before(f) == IF f \in DOMAIN fs0 THEN fs0[f] ELSE <<>>

\* C5: after the n-th call with the same mapping and directory every file
\* holds what it held before the first call followed by n copies of the
\* entries one call writes: after two calls every clipping is there twice,
\* the second copy after the first, and nothing was truncated.
C5_SecondRunAppends ==
    pc = "done" =>
        /\ Targets \subseteq DOMAIN fs
        /\ \A f \in Targets :
             fs[f] = Before(f) \o Repeat(EntriesFor(book_dict, f), runs)

\* Two calls have returned and the mapping holds a block.
C5_Witness ==
    /\ pc = "done"
    /\ runs = 2
    /\ \E i \in 1..Len(book_dict) : book_dict[i].clippings # <<>>

DistinctStems ==
    \A i, j \in 1..Len(book_dict) :
        i # j => clean_title(book_dict[i].title) # clean_title(book_dict[j].title)

NoTargetExisted == \A f \in Targets : f \notin DOMAIN fs0

\* C6: when the stems are pairwise distinct and no target file existed, the
\* file of each title holds exactly "\n" + block + "\n---\n" for each of
\* its blocks in list order, and no other file was created.
C6_FileContent ==
    (pc = "done" /\ runs = 1 /\ DistinctStems /\ NoTargetExisted) =>
        /\ DOMAIN fs = DOMAIN fs0 \cup Targets
        /\ \A i \in 1..Len(book_dict) :
             fs[Target(book_dict[i].title)] = BlocksText(book_dict[i].clippings)

\* Two titles with distinct stems, one of them with two blocks, were written
\* to files that did not exist.
C6_Witness ==
    /\ pc = "done"
    /\ runs = 1
    /\ Len(book_dict) = 2
    /\ DistinctStems
    /\ NoTargetExisted
    /\ \E i \in 1..Len(book_dict) : Len(book_dict[i].clippings) = 2

\* C9: titles with the same stem share one file: there are as many target
\* files as distinct stems, no other file appears, and of two titles with
\* the same stem the entries of the later one follow those of the earlier
\* one in the file, each group whole.
C9_SharedFile ==
    (pc = "done" /\ runs = 1) =>
        /\ Cardinality(DOMAIN fs \ DOMAIN fs0)
             = Cardinality({clean_title(book_dict[i].title) :
                               i \in {k \in 1..Len(book_dict) :
                                         Target(book_dict[k].title)
                                             \notin DOMAIN fs0}})
        /\ Cardinality(Targets)
             = Cardinality({clean_title(book_dict[i].title) :
                               i \in 1..Len(book_dict)})
        /\ \A i, j \in 1..Len(book_dict) :
             (i < j /\ clean_title(book_dict[i].title)
                          = clean_title(book_dict[j].title)) =>
                LET f == Target(book_dict[i].title)
                    a == BlocksText(book_dict[i].clippings)
                    b == BlocksText(book_dict[j].clippings)
                IN \E m \in 0..Len(fs[f]), n \in 0..Len(fs[f]) :
                      /\ m + Len(a) <= n
                      /\ n + Len(b) <= Len(fs[f])
                      /\ m >= Len(Before(f))
                      /\ SubSeq(fs[f], m + 1, m + Len(a)) = a
                      /\ SubSeq(fs[f], n + 1, n + Len(b)) = b

\* Two titles with one stem, each with a block, were written.
C9_Witness ==
    /\ pc = "done"
    /\ runs = 1
    /\ Len(book_dict) = 2
    /\ ~DistinctStems
    /\ \A i \in 1..Len(book_dict) : book_dict[i].clippings # <<>>
    /\ Cardinality(DOMAIN fs \ DOMAIN fs0) = 1

----------------------------------------------------------------------------
(* The whole program *)

BookOnePath == OUTPUT_DIR \o <<"/">> \o BookOne \o EXTENSION
BookTwoPath == OUTPUT_DIR \o <<"/">> \o BookTwo \o EXTENSION

\* C7: on the input of two "Book One" blocks, a "Book Two" block and one
\* more "Book One" block, run into an output directory without files, there
\* are exactly two files afterwards, and the "Book One" file holds the last
\* block of the input alone.
C7_EndToEnd ==
    (pc = "done" /\ file_content = ScenarioSource /\ fs0 = NoFiles) =>
        /\ DOMAIN fs = {BookOnePath, BookTwoPath}
        /\ fs[BookOnePath] = EntryText(ScenarioBlock4)
        /\ fs[BookTwoPath] = EntryText(ScenarioBlock3)

\* The program has run to its end on that input.
C7_Witness ==
    /\ pc = "done"
    /\ file_content = ScenarioSource
    /\ fs0 = NoFiles
    /\ Len(clippings) = 4
    /\ Len(book_dict) = 2

============================================================================
